---- MODULE Spec2Model ----
(***************************************************************************)
(* A model of the koa documentation protocol compiler: the route scanner   *)
(* (parser.ts), the example synthesizer (examples.ts), the API blueprint    *)
(* emitter (emitter.ts) and the watch host that drives them (index.ts).     *)
(*                                                                         *)
(* Text is a sequence of one-character strings, so that parseInt, the      *)
(* "contains a slash" test and the regular expressions of the source can   *)
(* be computed rather than assumed.                                        *)
(***************************************************************************)
EXTENDS Integers, Sequences, FiniteSets, TLC

VARIABLES
  config,           \* the validated Config of the run (emitter.config)
  watch,            \* argv.watch
  files,            \* nonLibFiles: every file is the pre-order list of its call expressions
  decl,             \* per routing-object variable: the JSDoc tags of its declaration
  pc,               \* where the process is: "idle", "scan", "thrown", "exited"
  pass,             \* number of afterProgramCreate invocations so far
  fileIdx,          \* the file documentSourceFile is working on
  nodeIdx,          \* the next call expression lookForRoutes visits in that file
  emitIdx,          \* the next entry of routersToRoutes the emit loop handles
  routersToRoutes,  \* the insertion-ordered Map<ts.Symbol, Block[]> of the current file
  emitted,          \* the Routers handed to emitter.emit, in call order
  diagnostics,      \* what logger.warn / logger.errLine reported
  fatal,            \* the Error that ended the pass, if any
  streams,          \* per pass: the fs.WriteStream of its DocumentationEmitter
  log,              \* the observable events of the run, in order
  call,             \* function harness: the pending call and its arguments
  ret               \* function harness: what the call returned

vars == <<config, watch, files, decl, pc, pass, fileIdx, nodeIdx, emitIdx,
          routersToRoutes, emitted, diagnostics, fatal, streams, log, call, ret>>

passVars == <<config, watch, files, decl, pc, pass, fileIdx, nodeIdx, emitIdx,
              routersToRoutes, emitted, diagnostics, fatal, streams, log>>

-----------------------------------------------------------------------------
(* Bounds of the model *)

MaxNodes == 3
MaxPasses == 2
MaxDocs == 4
MaxTags == 2
MaxPath == 4
MaxProps == 2
MaxParamTags == 4

-----------------------------------------------------------------------------
(* Text *)

NL == "\n"
Whitespace == {" ", NL, "\t"}
DecDigits == <<"0", "1", "2", "3", "4", "5", "6", "7", "8", "9">>
HexDigits == DecDigits \o <<"a", "b", "c", "d", "e", "f">>
HexUpper == <<"0", "1", "2", "3", "4", "5", "6", "7", "8", "9", "A", "B", "C", "D", "E", "F">>

\* String.prototype.includes for a single character
includes(s, c) == \E i \in 1..Len(s) : s[i] = c

\* The value of character c as a digit of the radix whose digits are ds, or -1
digitOf(ds, c) ==
  IF \E i \in 1..Len(ds) : ds[i] = c
  THEN (CHOOSE i \in 1..Len(ds) : ds[i] = c) - 1
  ELSE -1

hexValue(c) ==
  IF digitOf(HexDigits, c) >= 0 THEN digitOf(HexDigits, c) ELSE digitOf(HexUpper, c)

\* Number of leading characters of s that satisfy the digit test of the radix
RECURSIVE leadingDigits(_, _)
leadingDigits(s, radix) ==
  IF s = <<>> THEN 0
  ELSE LET d == IF radix = 16 THEN hexValue(Head(s)) ELSE digitOf(DecDigits, Head(s))
       IN IF d < 0 THEN 0 ELSE 1 + leadingDigits(Tail(s), radix)

RECURSIVE digitsValue(_, _, _)
digitsValue(s, radix, acc) ==
  IF s = <<>> THEN acc
  ELSE LET d == IF radix = 16 THEN hexValue(Head(s)) ELSE digitOf(DecDigits, Head(s))
       IN digitsValue(Tail(s), radix, acc * radix + d)

RECURSIVE trimStart(_)
trimStart(s) ==
  IF s # <<>> /\ Head(s) \in Whitespace THEN trimStart(Tail(s)) ELSE s

NaN == [nan |-> TRUE, v |-> 0]

\* The global parseInt(string) of the language, radix unspecified
parseInt(str) ==
  LET t == trimStart(str)
      signed == t # <<>> /\ Head(t) \in {"+", "-"}
      neg == t # <<>> /\ Head(t) = "-"
      u == IF signed THEN Tail(t) ELSE t
      hex == Len(u) >= 2 /\ u[1] = "0" /\ u[2] \in {"x", "X"}
      body == IF hex THEN SubSeq(u, 3, Len(u)) ELSE u
      radix == IF hex THEN 16 ELSE 10
      n == leadingDigits(body, radix)
      v == digitsValue(SubSeq(body, 1, n), radix, 0)
  IN IF n = 0 THEN NaN ELSE [nan |-> FALSE, v |-> IF neg THEN 0 - v ELSE v]

\* String(n) for an integer n
RECURSIVE natToString(_)
natToString(n) ==
  IF n < 10 THEN <<DecDigits[n + 1]>>
  ELSE natToString(n \div 10) \o <<DecDigits[(n % 10) + 1]>>

numberToString(n) == IF n < 0 THEN <<"-">> \o natToString(0 - n) ELSE natToString(n)

\* Index of the first occurrence of pat in s, 0 when there is none
indexOf(s, pat) ==
  LET hits == {i \in 1..(Len(s) - Len(pat) + 1) : SubSeq(s, i, i + Len(pat) - 1) = pat}
  IN IF hits = {} THEN 0 ELSE CHOOSE i \in hits : \A j \in hits : i <= j

\* The longest run of whitespace of s that starts at index i
RECURSIVE whitespaceRun(_, _)
whitespaceRun(s, i) ==
  IF i <= Len(s) /\ s[i] \in Whitespace THEN <<s[i]>> \o whitespaceRun(s, i + 1) ELSE <<>>

RECURSIVE trimEnd(_)
trimEnd(s) ==
  IF s # <<>> /\ s[Len(s)] \in Whitespace THEN trimEnd(SubSeq(s, 1, Len(s) - 1)) ELSE s

trim(s) == trimEnd(trimStart(s))

\* parser.ts splitByFirstNewline: [str, undefined] or [before, after]
splitByFirstNewline(str) ==
  LET nlindex == indexOf(str, <<NL>>)
  IN IF nlindex = 0
     THEN [first |-> str, hasRest |-> FALSE, rest |-> <<>>]
     ELSE [first |-> SubSeq(str, 1, nlindex - 1), hasRest |-> TRUE,
           rest |-> SubSeq(str, nlindex + 1, Len(str))]

-----------------------------------------------------------------------------
(* Values: a JSON value carries its kind and one field named after the kind *)

Null == [k |-> "null"]
Str(s) == [k |-> "string", s |-> s]
Num(n) == [k |-> "number", n |-> n]
Bool(b) == [k |-> "boolean", b |-> b]
Obj(entries) == [k |-> "object", entries |-> entries]
Arr(items) == [k |-> "array", items |-> items]
Thrown == [k |-> "throw"]

ApplicationJson ==
  <<"a", "p", "p", "l", "i", "c", "a", "t", "i", "o", "n", "/", "j", "s", "o", "n">>
TextPlain == <<"t", "e", "x", "t", "/", "p", "l", "a", "i", "n">>

\* obj[key] = val on an insertion-ordered object
objSet(entries, key, val) ==
  IF \E i \in 1..Len(entries) : entries[i].key = key
  THEN [i \in 1..Len(entries) |->
          IF entries[i].key = key THEN [key |-> key, val |-> val] ELSE entries[i]]
  ELSE Append(entries, [key |-> key, val |-> val])

objHas(entries, key) == \E i \in 1..Len(entries) : entries[i].key = key
objGet(entries, key) == entries[CHOOSE i \in 1..Len(entries) : entries[i].key = key].val

-----------------------------------------------------------------------------
(* config.ts *)

defaultDefaults ==
  [number |-> Num(0), string |-> Str(<<"a", "b", "c", "d">>), boolean |-> Bool(TRUE),
   jsonKey |-> <<"k", "e", "y">>]

\* A validated Config; the example tables are functions from names to values
mkConfig(response, param, afterHook) ==
  [output |-> <<"o">>, host |-> Null, title |-> Null, description |-> Null,
   defaults |-> defaultDefaults,
   examples |-> [response |-> response, param |-> param],
   afterHook |-> afterHook]

\* A property that the JSON of the config file does not have
Undefined == [k |-> "undefined"]

\* typeof of a JSON value
typeof(v) ==
  IF v.k \in {"null", "array"} THEN "object" ELSE v.k

\* The body of the loop over Object.keys(defaultDefaults) in validateConfig
validDefault(defaults, key) ==
  IF typeof(defaults[key]) = key
  THEN defaults[key]
  ELSE IF key = "jsonKey" THEN Str(defaultDefaults[key]) ELSE defaultDefaults[key]

\* validateConfig on the parsed JSON of the config file. A missing defaults
\* or examples object is one whose properties are all missing; a missing
\* example table is an empty one.
validateConfig(raw) ==
  IF typeof(raw.output) # "string" THEN [k |-> "Error", msg |-> "Property output is not defined"]
  ELSE [k |-> "ok",
        v |-> [output |-> raw.output.s,
               host |-> IF typeof(raw.host) = "string" THEN raw.host ELSE Null,
               title |-> IF typeof(raw.title) = "string" THEN raw.title ELSE Null,
               description |->
                 IF typeof(raw.description) = "string" THEN raw.description ELSE Null,
               defaults |-> [number |-> validDefault(raw.defaults, "number"),
                             string |-> validDefault(raw.defaults, "string"),
                             boolean |-> validDefault(raw.defaults, "boolean"),
                             jsonKey |-> validDefault(raw.defaults, "jsonKey").s],
               examples |-> [response |-> raw.examples.all @@ raw.examples.response,
                             param |-> raw.examples.all @@ raw.examples.param],
               afterHook |-> IF typeof(raw.afterHook) = "string" THEN raw.afterHook ELSE Null]]

hasOwnProperty(table, name) == name \in DOMAIN table

-----------------------------------------------------------------------------
(* examples.ts *)

\* A schema of typescript-json-schema. type is a string or an array of strings.
TypeOf(name) == [arr |-> FALSE, names |-> <<name>>]
NoAdditional == [k |-> "absent"]
NoItems == [k |-> "absent"]
mkSchema(type, properties, additionalProperties, items) ==
  [type |-> type, properties |-> properties,
   additionalProperties |-> additionalProperties, items |-> items]
Prim(name) == mkSchema(TypeOf(name), <<>>, NoAdditional, NoItems)

RECURSIVE createSchemaExample(_, _, _)
RECURSIVE reduceProperties(_, _, _, _)
RECURSIVE mapItems(_, _, _, _)

\* Object.keys(schema.properties).reduce(...): the properties from index i on
reduceProperties(props, config_, i, obj) ==
  IF i > Len(props) THEN Obj(obj)
  ELSE LET e == createSchemaExample(props[i].schema, config_, props[i].name)
       IN IF e = Thrown THEN Thrown
          ELSE reduceProperties(props, config_, i + 1, objSet(obj, props[i].name, e))

\* schema.items.map(item => createSchemaExample(item, config))
mapItems(items, config_, i, acc) ==
  IF i > Len(items) THEN Arr(acc)
  ELSE LET e == createSchemaExample(items[i], config_, <<>>)
       IN IF e = Thrown THEN Thrown ELSE mapItems(items, config_, i + 1, Append(acc, e))

\* const examples = config.examples.response
responseExamplesFromParam(config_) == config_.examples.param
responseExamples(config_) == config_.examples.response

\* The empty name stands for an absent or empty name: both are falsy.
createSchemaExample(schema, config_, name) ==
  LET type == IF schema.type.names # <<>> THEN schema.type.names[1] ELSE "undefined"
      examples == responseExamples(config_)
      named == name # <<>> /\ hasOwnProperty(examples, name)
  IN CASE schema.type.names = <<>> -> Thrown
       [] type = "object" ->
            LET res == reduceProperties(schema.properties, config_, 1, <<>>)
            IN IF res = Thrown THEN Thrown
               ELSE IF schema.additionalProperties.k = "schema"
               THEN LET extra == createSchemaExample(schema.additionalProperties.s, config_, <<>>)
                    IN IF extra = Thrown THEN Thrown
                       ELSE Obj(objSet(res.entries, config_.defaults.jsonKey, extra))
               ELSE res
       [] type = "array" ->
            IF named THEN examples[name]
            ELSE IF schema.items.k = "many" THEN mapItems(schema.items.ss, config_, 1, <<>>)
            ELSE IF schema.items.k = "one"
            THEN LET e == createSchemaExample(schema.items.s, config_, <<>>)
                 IN IF e = Thrown THEN Thrown ELSE Arr(<<e>>)
            ELSE Thrown
       [] type = "number" -> IF named THEN examples[name] ELSE config_.defaults.number
       [] type = "string" -> IF named THEN examples[name] ELSE config_.defaults.string
       [] type = "boolean" -> IF named THEN examples[name] ELSE config_.defaults.boolean
       [] OTHER -> Thrown

-----------------------------------------------------------------------------
(* parser.ts *)

ROUTER_TYPE == "Router"
ROUTER_METHODS == {"get", "post", "put", "patch", "delete"}

\* The declared types of the program, as generator.getSchemaForSymbol sees them:
\*   interface T { a: string; b: number }      type N = null
TypeT == <<"T">>
TypeN == <<"N">>
TypeU == <<"U">>
SchemaT ==
  mkSchema(TypeOf("object"),
           <<[name |-> <<"a">>, schema |-> Prim("string")],
             [name |-> <<"b">>, schema |-> Prim("number")]>>,
           NoAdditional, NoItems)
ProgramTypes == (TypeT :> SchemaT) @@ (TypeN :> Prim("null"))

getSchemaForSymbol(type) ==
  IF type \in DOMAIN ProgramTypes THEN [k |-> "schema", s |-> ProgramTypes[type]] ELSE Thrown

\* A tag as comment-parser returns it. A continuation line is joined to the
\* inline text of the tag with a newline, and the result is trimmed.
mkTag(tag, type, name, inline, continuation) ==
  [tag |-> tag, type |-> type, name |-> name,
   description |->
     IF continuation = <<>> THEN inline
     ELSE IF inline = <<>> THEN continuation
     ELSE inline \o <<NL>> \o continuation,
   source |->
     <<"@">> \o tag
       \o (IF type = <<>> THEN <<>> ELSE <<" ", "{">> \o type \o <<"}">>)
       \o (IF name = <<>> THEN <<>> ELSE <<" ">> \o name)
       \o (IF inline = <<>> THEN <<>> ELSE <<" ">> \o inline)
       \o (IF continuation = <<>> THEN <<>> ELSE <<NL>> \o continuation)]

TagParam == <<"p", "a", "r", "a", "m">>
TagQuery == <<"q", "u", "e", "r", "y">>
TagResponse == <<"r", "e", "s", "p", "o", "n", "s", "e">>
TagBody == <<"b", "o", "d", "y">>

NiceError(msg) == [k |-> "NiceError", msg |-> msg]
PlainError(msg) == [k |-> "Error", msg |-> msg]
Ok(v) == [k |-> "ok", v |-> v]

parseParamShared(tag, query, config_) ==
  LET examples == config_.examples.response @@ config_.examples.param
      example == IF hasOwnProperty(examples, tag.name) THEN examples[tag.name]
                 ELSE config_.defaults.string
  IN [name |-> tag.name, type |-> tag.type, description |-> tag.description,
      query |-> query, example |-> example]

parseParam(tag, query, config_) ==
  LET examples == config_.examples.param
      example == IF hasOwnProperty(examples, tag.name) THEN examples[tag.name]
                 ELSE config_.defaults.string
  IN [name |-> tag.name, type |-> tag.type, description |-> tag.description,
      query |-> query, example |-> example]

\* The Response built at the end of parseResponse, once the schema and the
\* synthesized body are known (both Null for an untyped tag)
responseOf(tag, responseCode, schema, body) ==
  LET codeText == numberToString(responseCode)
      at == indexOf(tag.source, codeText)
      whitespace == IF at = 0 THEN <<>> ELSE whitespaceRun(tag.source, at + Len(codeText))
      adjustedDescription ==
        IF includes(whitespace, NL) THEN <<NL>> \o tag.description ELSE tag.description
      splitDescription == splitByFirstNewline(adjustedDescription)
  IN Ok([code |-> responseCode,
         when |-> IF splitDescription.first # <<>> THEN Str(splitDescription.first) ELSE Null,
         type |-> IF schema # Null THEN Str(ApplicationJson)
                  ELSE IF tag.type # <<>> THEN Str(tag.type) ELSE Null,
         body |-> IF splitDescription.hasRest /\ splitDescription.rest # <<>>
                  THEN Str(splitDescription.rest) ELSE body,
         schema |-> schema])

\* The second try block of parseResponse: example is createSchemaExample(schema)
responseOfExample(tag, responseCode, schema, example) ==
  IF example = Thrown THEN NiceError("Unexpected type in schema")
  ELSE responseOf(tag, responseCode, schema, example)

responseOfSchemaDropsTag(tag, config_, responseCode, resolved) ==
  IF resolved = Thrown THEN responseOf(tag, responseCode, Null, Null)
  ELSE responseOfExample(tag, responseCode, resolved,
                         createSchemaExample(resolved.s, config_, <<>>))

\* The first try block of parseResponse: resolved is getSchemaForSymbol(type)
responseOfSchema(tag, config_, responseCode, resolved) ==
  IF resolved = Thrown THEN NiceError("In generating schema for type")
  ELSE responseOfExample(tag, responseCode, resolved,
                         createSchemaExample(resolved.s, config_, <<>>))

responseOfCode(tag, config_, responseCode) ==
  IF responseCode.nan THEN NiceError("Response code should be a number")
  ELSE IF tag.type # <<>> /\ ~includes(tag.type, "/")
  THEN responseOfSchema(tag, config_, responseCode.v, getSchemaForSymbol(tag.type))
  ELSE responseOf(tag, responseCode.v, Null, Null)

parseResponse(tag, config_) == responseOfCode(tag, config_, parseInt(tag.name))

\* The RequestBody built at the end of parseBody
bodyOf(tag, bodyContentType, schema, body) ==
  Ok([type |-> bodyContentType,
      body |-> IF tag.description # <<>> THEN Str(tag.description) ELSE body,
      schema |-> schema])

bodyOfExample(tag, bodyContentType, schema, example) ==
  IF example = Thrown THEN NiceError("Unexpected type in schema")
  ELSE bodyOf(tag, bodyContentType, schema, example)

bodyOfSchema(tag, config_, bodyContentType, resolved) ==
  IF resolved = Thrown THEN NiceError("In generating schema for type")
  ELSE bodyOfExample(tag, bodyContentType, resolved,
                     createSchemaExample(resolved.s, config_, <<>>))

parseBody(tag, config_) ==
  LET fromType == tag.type # <<>>
      braced == Len(tag.name) >= 2 /\ tag.name[1] = "{" /\ tag.name[Len(tag.name)] = "}"
      tagContent == SubSeq(tag.name, 2, Len(tag.name) - 1)
      contentType1 == IF fromType /\ includes(tag.type, "/") THEN Str(tag.type) ELSE Null
      tsType1 == IF fromType /\ ~includes(tag.type, "/") THEN tag.type ELSE <<>>
      bodyContentType ==
        IF tag.name # <<>> /\ includes(tagContent, "/") THEN Str(tagContent) ELSE contentType1
      bodyTypescriptType ==
        IF tag.name # <<>> /\ ~includes(tagContent, "/") THEN tagContent ELSE tsType1
  IN IF tag.name # <<>> /\ ~braced
     THEN NiceError("@body tag should have types surrounded in curly braces")
     ELSE IF bodyTypescriptType # <<>>
     THEN bodyOfSchema(tag, config_, bodyContentType, getSchemaForSymbol(bodyTypescriptType))
     ELSE bodyOf(tag, bodyContentType, Null, Null)

filterTags(tags, name) == SelectSeq(tags, LAMBDA t : t.tag = name)

\* tags.map(t => parseResponse(...)): the first tag that throws ends the map
RECURSIVE mapResponses(_, _, _, _)
mapResponsesNext(tags, config_, i, acc, r) ==
  IF r.k = "ok" THEN mapResponses(tags, config_, i + 1, Append(acc, r.v)) ELSE r

mapResponses(tags, config_, i, acc) ==
  IF i > Len(tags) THEN Ok(acc)
  ELSE mapResponsesNext(tags, config_, i, acc, parseResponse(tags[i], config_))

mapParams(tags, query, config_) ==
  [i \in 1..Len(tags) |-> parseParam(tags[i], query, config_)]

\* A comment is [present, description, tags]: present is FALSE when
\* comment-parser finds no documentation block before the call.
NoComment == [present |-> FALSE, description |-> <<>>, tags |-> <<>>]
mkComment(description, tags) == [present |-> TRUE, description |-> description, tags |-> tags]

blockOfLastTagFirst(node, at, config_, responses, body) ==
  LET split == splitByFirstNewline(node.comment.description)
      urlParams == mapParams(filterTags(node.comment.tags, TagParam), FALSE, config_)
      queryParams == mapParams(filterTags(node.comment.tags, TagQuery), TRUE, config_)
  IN Ok([method |-> node.method, path |-> node.path,
         title |-> split.first,
         description |-> trim(IF split.hasRest THEN split.rest ELSE <<>>),
         params |-> [i \in 1..Len(urlParams) |-> urlParams[Len(urlParams) + 1 - i]]
                      \o [i \in 1..Len(queryParams) |-> queryParams[Len(queryParams) + 1 - i]],
         responses |-> responses,
         body |-> body,
         at |-> at])

\* The Block returned at the end of handleKoaRouter. at is the position of the
\* call in the program; it gives the Block the identity its object has.
blockOf(node, at, config_, responses, body) ==
  LET split == splitByFirstNewline(node.comment.description)
  IN Ok([method |-> node.method, path |-> node.path,
         title |-> split.first,
         description |-> trim(IF split.hasRest THEN split.rest ELSE <<>>),
         params |-> mapParams(filterTags(node.comment.tags, TagParam), FALSE, config_)
                      \o mapParams(filterTags(node.comment.tags, TagQuery), TRUE, config_),
         responses |-> responses,
         body |-> body,
         at |-> at])

blockOfBody(node, at, config_, responses, body) ==
  IF body.k # "ok" THEN body ELSE blockOf(node, at, config_, responses, body.v)

blockOfResponses(node, at, config_, responses, bodies) ==
  IF responses.k # "ok" THEN responses
  ELSE IF Len(bodies) > 1 THEN PlainError("Too many @body tags")
  ELSE blockOfBody(node, at, config_, responses.v,
                   IF Len(bodies) > 0 THEN parseBody(bodies[1], config_) ELSE Ok(Null))

handleKoaRouter(node, at, config_) ==
  IF ~node.comment.present THEN [k |-> "undefined", msg |-> "Ignoring undocumented route"]
  ELSE blockOfResponses(node, at, config_,
                        mapResponses(filterTags(node.comment.tags, TagResponse), config_, 1, <<>>),
                        filterTags(node.comment.tags, TagBody))

groupByRouteStepMoves(orderedGroups, doc) ==
  Append(SelectSeq(orderedGroups, LAMBDA g : g.path # doc.path),
         [path |-> doc.path,
          methods |-> Append(IF \E g \in 1..Len(orderedGroups) : orderedGroups[g].path = doc.path
                             THEN orderedGroups[CHOOSE g \in 1..Len(orderedGroups) :
                                                  orderedGroups[g].path = doc.path].methods
                             ELSE <<>>, doc)])

\* The body of the for loop of groupByRoute: one doc against the groups so far
groupByRouteStep(orderedGroups, doc) ==
  IF \E g \in 1..Len(orderedGroups) : orderedGroups[g].path = doc.path
  THEN [g \in 1..Len(orderedGroups) |->
          IF orderedGroups[g].path = doc.path
          THEN [orderedGroups[g] EXCEPT !.methods = Append(@, doc)]
          ELSE orderedGroups[g]]
  ELSE Append(orderedGroups, [path |-> doc.path, methods |-> <<doc>>])

RECURSIVE groupByRouteFrom(_, _, _)
groupByRouteFrom(docs, i, orderedGroups) ==
  IF i > Len(docs) THEN orderedGroups
  ELSE groupByRouteFrom(docs, i + 1, groupByRouteStep(orderedGroups, docs[i]))

groupByRouteWithoutMap(docs) ==
  [i \in 1..Len(docs) |-> [path |-> docs[i].path, methods |-> <<docs[i]>>]]

groupByRoute(docs) == groupByRouteFrom(docs, 1, <<>>)

parseRouterDocFirstTag(declaration, routes) ==
  LET routePaths == SelectSeq(declaration.tags, LAMBDA t : t.name # <<>>)
      split == splitByFirstNewline(declaration.text)
  IN Ok([path |-> IF Len(routePaths) > 0 /\ routePaths[1].text # <<>>
                  THEN routePaths[1].text ELSE <<"/">>,
         title |-> split.first,
         description |-> IF split.hasRest THEN Str(split.rest) ELSE Null,
         routes |-> routes])

\* A declaration is [tags, text]: the JSDoc tags and the documentation comment
parseRouterDoc(declaration, routes) ==
  LET routePaths == SelectSeq(declaration.tags, LAMBDA t : t.name # <<>>)
      split == splitByFirstNewline(declaration.text)
  IN IF Len(routePaths) > 1 THEN PlainError("Too many @route tags")
     ELSE Ok([path |-> IF Len(routePaths) > 0 /\ routePaths[1].text # <<>>
                       THEN routePaths[1].text ELSE <<"/">>,
              title |-> split.first,
              description |-> IF split.hasRest THEN Str(split.rest) ELSE Null,
              routes |-> routes])

\* Every call of the model has the form receiver.name(...), so the child count
\* and identifier tests of the source hold. The result is "true", "false",
\* "warn" (false after the warning) or "throw" (node.arguments[0] is undefined).
isRouterFunction(node) ==
  IF ~node.hasSymbol THEN "false"
  ELSE IF node.recvType # ROUTER_TYPE THEN "false"
  ELSE IF node.method \notin ROUTER_METHODS THEN "false"
  ELSE IF node.arg0 = "none" THEN "throw"
  ELSE IF node.arg0 # "StringLiteral" THEN "warn"
  ELSE "true"

-----------------------------------------------------------------------------
(* emitter.ts: what a DocumentationEmitter writes *)

\* The longest prefix of s without a slash: what [^/]+ matches
RECURSIVE segmentRun(_)
segmentRun(s) ==
  IF s = <<>> \/ Head(s) = "/" THEN <<>> ELSE <<Head(s)>> \o segmentRun(Tail(s))

\* path.replace(/:([^/]+)/g, '{$1}'), scanning from the left
RECURSIVE formatPath(_)
formatPath(path) ==
  IF path = <<>> THEN <<>>
  ELSE IF Head(path) = ":" /\ segmentRun(Tail(path)) # <<>>
  THEN <<"{">> \o segmentRun(Tail(path)) \o <<"}">>
         \o formatPath(SubSeq(path, Len(segmentRun(Tail(path))) + 2, Len(path)))
  ELSE <<Head(path)>> \o formatPath(Tail(path))

\* Every write of the emitter is a record: w names the template of the
\* fileStream.write call, the other fields are the texts put into it. A JSON
\* body or schema is kept as the value that stringify is given.

RECURSIVE Flatten(_)
Flatten(lists) == IF lists = <<>> THEN <<>> ELSE Head(lists) \o Flatten(Tail(lists))

\* The truthiness of a JSON value or of a missing one
truthy(v) ==
  CASE v.k \in {"null", "undefined"} -> FALSE
    [] v.k = "string" -> v.s # <<>>
    [] v.k = "number" -> v.n # 0
    [] v.k = "boolean" -> v.b
    [] OTHER -> TRUE

\* path.normalize on a non-empty path without "." and ".." segments: runs of
\* slashes become one slash
RECURSIVE collapseRuns(_)
collapseRuns(p) ==
  IF Len(p) < 2 THEN p
  ELSE IF p[1] = "/" /\ p[2] = "/" THEN collapseRuns(Tail(p))
  ELSE <<Head(p)>> \o collapseRuns(Tail(p))

\* The empty path normalizes to "."
collapseSlashes(p) == IF p = <<>> THEN <<".">> ELSE collapseRuns(p)

\* path.join(a, b)
pathJoin(a, b) ==
  IF a = <<>> THEN collapseSlashes(b)
  ELSE IF b = <<>> THEN collapseSlashes(a)
  ELSE collapseSlashes(a \o <<"/">> \o b)

\* names.join(',')
RECURSIVE joinComma(_)
joinComma(names) ==
  IF names = <<>> THEN <<>>
  ELSE IF Len(names) = 1 THEN names[1]
  ELSE names[1] \o <<",">> \o joinComma(Tail(names))

\* method.toUpperCase() for the method names of ROUTER_METHODS
toUpperCase(method) ==
  CASE method = "get" -> "GET"
    [] method = "post" -> "POST"
    [] method = "put" -> "PUT"
    [] method = "patch" -> "PATCH"
    [] method = "delete" -> "DELETE"

\* The characters encodeURIComponent leaves alone, and those encodeURI adds
UriUnreserved ==
  {"a", "b", "c", "d", "e", "f", "g", "h", "i", "j", "k", "l", "m", "n", "o", "p", "q", "r",
   "s", "t", "u", "v", "w", "x", "y", "z", "A", "B", "C", "D", "E", "F", "G", "H", "I", "J",
   "K", "L", "M", "N", "O", "P", "Q", "R", "S", "T", "U", "V", "W", "X", "Y", "Z", "0", "1",
   "2", "3", "4", "5", "6", "7", "8", "9", "-", "_", ".", "!", "~", "*", "'", "(", ")"}
UriReserved == {";", "/", "?", ":", "@", "&", "=", "+", "$", ",", "#"}

\* The escapes of the other ASCII characters that texts of the model can hold
Escaped == <<"\t", "\n", " ", "#", "$", "&", "+", ",", "/", ":", ";", "=", "?", "@", "{", "}">>
Escapes ==
  <<"09", "0A", "20", "23", "24", "26", "2B", "2C", "2F", "3A", "3B", "3D", "3F", "40", "7B",
    "7D">>

percentEncoded(c) ==
  <<"%", Escapes[CHOOSE i \in 1..Len(Escaped) : Escaped[i] = c]>>

RECURSIVE encodeWith(_, _)
encodeWith(text, kept) ==
  IF text = <<>> THEN <<>>
  ELSE (IF Head(text) \in kept THEN <<Head(text)>> ELSE percentEncoded(Head(text)))
         \o encodeWith(Tail(text), kept)

encodeURIComponent(text) == encodeWith(text, UriUnreserved)
encodeURI(text) == encodeWith(text, UriUnreserved \cup UriReserved)

\* emitMetadata(host, title, description)
emitMetadata(config_) ==
  <<[w |-> "FORMAT: 1A"]>>
    \o (IF truthy(config_.host) THEN <<[w |-> "HOST: ", text |-> config_.host.s]>> ELSE <<>>)
    \o <<[w |-> "newline"]>>
    \o (IF truthy(config_.title) THEN <<[w |-> "# ", text |-> config_.title.s]>> ELSE <<>>)
    \o (IF truthy(config_.description)
        THEN <<[w |-> "description", text |-> config_.description.s]>> ELSE <<>>)
    \o <<[w |-> "newline"]>>

emitParam(param) ==
  <<[w |-> "+ param", name |-> param.name,
     example |-> IF param.query THEN encodeURIComponent(param.example.s)
                 ELSE encodeURI(param.example.s),
     type |-> param.type, description |-> param.description]>>

emitResponse(res) ==
  <<[w |-> "+ Response", code |-> res.code]>>
    \o (IF truthy(res.type) /\ res.type # Str(TextPlain)
        THEN <<[w |-> "(type)", text |-> res.type.s]>> ELSE <<>>)
    \o <<[w |-> "newline"]>>
    \o (IF truthy(res.body) THEN <<[w |-> "+ Body"], [w |-> "body", value |-> res.body]>>
        ELSE <<>>)
    \o (IF truthy(res.schema) THEN <<[w |-> "+ Schema"], [w |-> "schema", value |-> res.schema]>>
        ELSE <<>>)

emitBody(body) ==
  <<[w |-> "+ Request", type |-> body.type], [w |-> "body", value |-> body.body]>>

routeUrlWithoutQuery(doc, leadingPath, queryParams) ==
  pathJoin(leadingPath, formatPath(doc.path))

\* The url of the heading that emitRoute writes
routeUrl(doc, leadingPath, queryParams) ==
  pathJoin(leadingPath, formatPath(doc.path))
    \o (IF Len(queryParams) > 0 THEN <<"{", "?">> \o joinComma(queryParams) \o <<"}">>
        ELSE <<>>)

emitRouteInRequestLast(doc, leadingPath) ==
  <<[w |-> "## <Unnamed group>",
     url |-> routeUrl(doc, leadingPath,
                      [i \in 1..Len(SelectSeq(doc.params, LAMBDA p : p.query)) |->
                         SelectSeq(doc.params, LAMBDA p : p.query)[i].name])],
    [w |-> "### ", title |-> doc.title, method |-> toUpperCase(doc.method)],
    [w |-> "description", text |-> doc.description]>>
    \o (IF Len(doc.params) > 0
        THEN <<[w |-> "+ Parameters"]>>
               \o Flatten([i \in 1..Len(doc.params) |-> emitParam(doc.params[i])])
        ELSE <<>>)
    \o Flatten([i \in 1..Len(doc.responses) |-> emitResponse(doc.responses[i])])
    \o (IF doc.body # Null THEN emitBody(doc.body) ELSE <<>>)

emitRoute(doc, leadingPath) ==
  <<[w |-> "## <Unnamed group>",
     url |-> routeUrl(doc, leadingPath,
                      [i \in 1..Len(SelectSeq(doc.params, LAMBDA p : p.query)) |->
                         SelectSeq(doc.params, LAMBDA p : p.query)[i].name])],
    [w |-> "### ", title |-> doc.title, method |-> toUpperCase(doc.method)],
    [w |-> "description", text |-> doc.description]>>
    \o (IF Len(doc.params) > 0
        THEN <<[w |-> "+ Parameters"]>>
               \o Flatten([i \in 1..Len(doc.params) |-> emitParam(doc.params[i])])
        ELSE <<>>)
    \o (IF doc.body # Null THEN emitBody(doc.body) ELSE <<>>)
    \o Flatten([i \in 1..Len(doc.responses) |-> emitResponse(doc.responses[i])])

emitGroup(doc, leadingPath) ==
  Flatten([m \in 1..Len(doc.methods) |-> emitRoute(doc.methods[m], leadingPath)])

emit(doc) ==
  <<[w |-> "# Group ", title |-> doc.title, description |-> doc.description]>>
    \o Flatten([g \in 1..Len(doc.routes) |-> emitGroup(doc.routes[g], doc.path)])

-----------------------------------------------------------------------------
(* Inputs of the function harness *)

BoundedSeq(S, n) == UNION {[1..k -> S] : k \in 0..n}

PathA == <<"/", "a">>
PathB == <<"/", "b">>
PathC == <<"/", "c">>
Paths == {PathA, PathB, PathC}

NameA == <<"a">>
NameB == <<"b">>
ExampleNames == {NameA, NameB, <<>>}

\* The example tables a docconfig.json can give: any subset of the names
ResponseTables == {[n \in D |-> Str(<<"R">> \o n)] : D \in SUBSET ExampleNames}
ParamTables == {[n \in D |-> Str(<<"P">> \o n)] : D \in SUBSET ExampleNames}
Configs == {mkConfig(r, p, Null) : r \in ResponseTables, p \in ParamTables}
EmptyTable == [n \in {} |-> Null]
DefaultConfig == mkConfig(EmptyTable, EmptyTable, Null)

\* A Block that carries only what grouping reads
stubBlock(method, path, at) ==
  [method |-> method, path |-> path, title |-> <<>>, description |-> <<>>,
   params |-> <<>>, responses |-> <<>>, body |-> Null, at |-> at]

DocLists ==
  UNION {{[i \in 1..k |-> stubBlock("get", ps[i], <<1, i>>)] : ps \in [1..k -> Paths]} : k \in 0..MaxDocs}

PrimitiveKinds == {"number", "string", "boolean"}
PropertySchemas ==
  {mkSchema(TypeOf("object"), <<[name |-> n, schema |-> Prim(t)]>>, NoAdditional, NoItems) :
     n \in ExampleNames, t \in PrimitiveKinds}

\* Object schemas with up to MaxProps properties, one of them possibly named
\* like the default jsonKey, with and without a schema for extra properties
KeyName == <<"k", "e", "y">>
PropertyNames == {NameA, NameB, KeyName}
AnyAdditional == [k |-> "true"]
InnerSchema ==
  mkSchema(TypeOf("object"), <<[name |-> NameB, schema |-> Prim("boolean")]>>,
           [k |-> "schema", s |-> Prim("string")], NoItems)
PropertyKinds == {Prim("string"), Prim("number"), InnerSchema}
Additionals == {NoAdditional, AnyAdditional, [k |-> "schema", s |-> Prim("number")]}
ObjectSchemas ==
  UNION {{mkSchema(TypeOf("object"), [i \in 1..k |-> [name |-> ns[i], schema |-> ts[i]]],
                   ap, NoItems) :
            ns \in {f \in [1..k -> PropertyNames] : \A i, j \in 1..k : i # j => f[i] # f[j]},
            ts \in [1..k -> PropertyKinds], ap \in Additionals} : k \in 0..MaxProps}
OverrideConfig == mkConfig([n \in {NameA} |-> Str(<<"R", "a">>)], EmptyTable, Null)

ParamTags ==
  {mkTag(t, <<"s", "t", "r", "i", "n", "g">>, n, <<>>, <<>>) :
     t \in {TagParam, TagQuery}, n \in ExampleNames}

Code200 == <<"2", "0", "0">>
CodeAbc == <<"a", "b", "c">>
CodeHex == <<"0", "x", "1", "0">>
Code404 == <<"4", "0", "4">>
RouteTags ==
  {mkTag(TagParam, <<"s", "t", "r", "i", "n", "g">>, NameA, <<>>, <<>>),
   mkTag(TagQuery, <<"s", "t", "r", "i", "n", "g">>, NameB, <<>>, <<>>),
   mkTag(TagResponse, <<>>, Code200, <<>>, <<>>),
   mkTag(TagResponse, <<>>, CodeAbc, <<>>, <<>>),
   mkTag(TagResponse, TypeT, Code200, <<>>, <<>>),
   mkTag(TagResponse, TypeU, Code200, <<>>, <<>>),
   mkTag(TagResponse, TypeN, Code200, <<>>, <<>>),
   mkTag(TagResponse, TextPlain, Code200, <<>>, <<"H", "i">>),
   mkTag(TagResponse, <<>>, Code200, <<>>, <<"H", "i">>),
   mkTag(TagResponse, <<>>, CodeHex, <<>>, <<"H", "i">>),
   mkTag(TagBody, TypeT, <<"{">> \o ApplicationJson \o <<"}">>, <<>>, <<>>),
   mkTag(TagBody, TypeU, <<>>, <<>>, <<>>),
   mkTag(TagBody, TypeN, <<>>, <<>>, <<>>)}

RouteComments == {mkComment(<<"T">>, tags) : tags \in BoundedSeq(RouteTags, MaxTags)}

\* Comments of @param and @query tags only, two names of each kind, in every
\* order and interleaving of up to MaxParamTags tags
ParamQueryTags ==
  {mkTag(t, <<"s", "t", "r", "i", "n", "g">>, n, <<>>, <<>>) :
     t \in {TagParam, TagQuery}, n \in {NameA, NameB}}
ParamComments ==
  {mkComment(<<"T">>, tags) : tags \in BoundedSeq(ParamQueryTags, MaxParamTags)}

\* A call expression receiver.method(arg0, ...) with its leading comment; size
\* is the number of call expressions of its subtree, itself included.
mkNode(sym, obj, method, arg0, path, comment, size) ==
  [sym |-> sym, obj |-> obj, hasSymbol |-> TRUE, recvType |-> ROUTER_TYPE,
   method |-> method, arg0 |-> arg0, path |-> path, comment |-> comment, size |-> size]

Pending == [k |-> "pending"]
NoCall == [fn |-> "none"]

PathChars == {"/", ":", "a"}
FormatPathCalls == {[fn |-> "formatPath", path |-> p] : p \in BoundedSeq(PathChars, MaxPath)}

UserKey == <<"i", "d">>
RawDefaults ==
  [number : {Num(7), Undefined}, string : {Str(<<"s">>), Undefined},
   boolean : {Bool(FALSE), Undefined}, jsonKey : {Str(UserKey), Undefined}]
      \cup {[number |-> Str(<<"7">>), string |-> Null, boolean |-> Num(1), jsonKey |-> Num(1)]}
RawExamples ==
  [response : {EmptyTable, NameA :> Str(<<"R">>)}, param : {EmptyTable},
   all : {EmptyTable, NameA :> Str(<<"A">>)}]
RawConfigs ==
  [output : {Str(<<"o">>), Undefined}, host : {Undefined}, title : {Str(<<"T">>)},
   description : {Undefined}, afterHook : {Str(<<"h">>), Str(<<>>), Undefined},
   defaults : RawDefaults, examples : RawExamples]
ConfigCalls == {[fn |-> "validateConfig", raw |-> r] : r \in RawConfigs}

GroupCalls == {[fn |-> "groupByRoute", docs |-> d] : d \in DocLists}
ExampleCalls ==
  {[fn |-> "createSchemaExample", schema |-> s, config |-> c] :
     s \in PropertySchemas, c \in Configs}
ObjectCalls ==
  {[fn |-> "createObjectExample", schema |-> s, config |-> c] :
     s \in ObjectSchemas, c \in {DefaultConfig, OverrideConfig}}
ParamCalls ==
  {[fn |-> "parseParam", tag |-> t, query |-> t.tag = TagQuery, config |-> c] :
     t \in ParamTags, c \in Configs}
RouteCalls ==
  {[fn |-> "handleKoaRouter",
    node |-> mkNode("router", 1, "get", "StringLiteral", PathA, c, 1)] :
     c \in RouteComments \cup ParamComments \cup {NoComment}}

-----------------------------------------------------------------------------
(* The function harness: one call of a function of the source on drawn inputs *)

IdlePass ==
  /\ config = DefaultConfig
  /\ watch = FALSE
  /\ files = <<>>
  /\ decl = <<>>
  /\ pc = "idle"
  /\ pass = 0
  /\ fileIdx = 1
  /\ nodeIdx = 1
  /\ emitIdx = 1
  /\ routersToRoutes = <<>>
  /\ emitted = <<>>
  /\ diagnostics = <<>>
  /\ fatal = Null
  /\ streams = <<>>
  /\ log = <<>>

InitFn ==
  /\ IdlePass
  /\ ret = Pending
  /\ \/ call \in GroupCalls
     \/ call \in ExampleCalls
     \/ call \in ParamCalls
     \/ call \in RouteCalls
     \/ call \in FormatPathCalls
     \/ call \in ConfigCalls
     \/ call \in ObjectCalls

CallGroupByRoute ==
  /\ call.fn = "groupByRoute" /\ ret = Pending
  /\ ret' = Ok(groupByRoute(call.docs))
  /\ UNCHANGED <<passVars, call>>

CallCreateSchemaExample ==
  /\ call.fn = "createSchemaExample" /\ ret = Pending
  /\ ret' = Ok(createSchemaExample(call.schema, call.config, <<>>))
  /\ UNCHANGED <<passVars, call>>

\* createSchemaExample(schema, config) on an object schema of ObjectSchemas
CallCreateObjectExample ==
  /\ call.fn = "createObjectExample" /\ ret = Pending
  /\ ret' = Ok(createSchemaExample(call.schema, call.config, <<>>))
  /\ UNCHANGED <<passVars, call>>

CallParseParam ==
  /\ call.fn = "parseParam" /\ ret = Pending
  /\ ret' = Ok(parseParam(call.tag, call.query, call.config))
  /\ UNCHANGED <<passVars, call>>

CallHandleKoaRouter ==
  /\ call.fn = "handleKoaRouter" /\ ret = Pending
  /\ ret' = handleKoaRouter(call.node, <<1, 1>>, DefaultConfig)
  /\ UNCHANGED <<passVars, call>>

CallFormatPath ==
  /\ call.fn = "formatPath" /\ ret = Pending
  /\ ret' = Ok(formatPath(call.path))
  /\ UNCHANGED <<passVars, call>>

CallValidateConfig ==
  /\ call.fn = "validateConfig" /\ ret = Pending
  /\ ret' = validateConfig(call.raw)
  /\ UNCHANGED <<passVars, call>>

NextFn ==
  \/ CallGroupByRoute
  \/ CallCreateSchemaExample
  \/ CallParseParam
  \/ CallHandleKoaRouter
  \/ CallFormatPath
  \/ CallValidateConfig
  \/ CallCreateObjectExample

SpecFn == InitFn /\ [][NextFn]_vars

-----------------------------------------------------------------------------
(* Programs: the inputs of a pass *)

Symbols == {"router", "api"}
Objects == {1, 2}

TagRoute == <<"r", "o", "u", "t", "e">>
DeclOne == [tags |-> <<[name |-> TagRoute, text |-> <<"/">>]>>, text |-> <<"R">>]
DeclTwo ==
  [tags |-> <<[name |-> TagRoute, text |-> <<"/">>], [name |-> TagRoute, text |-> <<"/", "v">>]>>,
   text |-> <<"R">>]

DocOk == mkComment(<<"T">>, <<mkTag(TagResponse, <<>>, Code200, <<>>, <<>>)>>)
DocBadCode == mkComment(<<"T">>, <<mkTag(TagResponse, <<>>, CodeAbc, <<>>, <<>>)>>)
DocBadType == mkComment(<<"T">>, <<mkTag(TagResponse, TypeU, Code200, <<>>, <<>>)>>)
DocTwoBodies ==
  mkComment(<<"T">>, <<mkTag(TagBody, TypeT, <<>>, <<>>, <<>>), mkTag(TagBody, TypeT, <<>>, <<>>, <<>>)>>)
DocQuery ==
  mkComment(<<"T">>, <<mkTag(TagQuery, <<"s", "t", "r", "i", "n", "g">>, NameB, <<>>, <<>>),
                       mkTag(TagResponse, <<>>, Code200, <<>>, <<>>),
                       mkTag(TagQuery, <<"s", "t", "r", "i", "n", "g">>, NameA, <<>>, <<>>)>>)
DocFull ==
  mkComment(<<"T">>, <<mkTag(TagResponse, TypeT, Code200, <<>>, <<>>),
                       mkTag(TagBody, TypeT, <<>>, <<>>, <<>>),
                       mkTag(TagParam, <<"s", "t", "r", "i", "n", "g">>, NameA, <<>>, <<>>),
                       mkTag(TagResponse, <<>>, Code404, <<>>, <<"H", "i">>)>>)
DocBadCodeTwoBodies ==
  mkComment(<<"T">>, <<mkTag(TagResponse, <<>>, CodeAbc, <<>>, <<>>)>> \o DocTwoBodies.tags)

\* Routes on two variables that may or may not hold the same routing object
AliasNodes ==
  {mkNode(s, o, "get", "StringLiteral", PathA, DocOk, 1) : s \in Symbols, o \in Objects}
\* Documented and undocumented routes on two variables
BindingNodes ==
  {mkNode(s, 1, "get", "StringLiteral", PathA, c, 1) : s \in Symbols, c \in {DocOk, NoComment}}
\* Routes that are skipped: no comment, a bad response code, an unresolvable type
SkipNodes ==
  {mkNode("router", 1, "get", "StringLiteral", PathA, c, 1) :
     c \in {DocOk, NoComment, DocBadCode, DocBadType}}
\* Calls that are no route, and routes that end the pass
OtherNodes ==
  {mkNode("router", 1, "get", "StringLiteral", PathA, c, 1) : c \in {DocOk, DocTwoBodies, DocBadCodeTwoBodies}}
    \cup {mkNode("router", 1, "get", a, PathA, DocOk, 1) : a \in {"Identifier", "none"}}
    \cup {mkNode("router", 1, "use", "StringLiteral", PathA, NoComment, 1)}

\* Routes with params, a body and responses, on two paths
PathId == <<"/", ":", "i">>
EmitNodes ==
  {mkNode("router", 1, "get", "StringLiteral", PathA, c, 1) : c \in {DocOk, DocQuery}}
    \cup {mkNode("router", 1, "get", "StringLiteral", PathId, DocFull, 1)}

\* The subtree sizes of k call expressions in pre-order: subtrees nest
Shapes(k) ==
  {sz \in [1..k -> 1..k] :
     \A i \in 1..k :
       /\ i + sz[i] - 1 <= k
       /\ \A j \in (i + 1)..(i + sz[i] - 1) : j + sz[j] - 1 <= i + sz[i] - 1}
Flat(k) == {[i \in 1..k |-> 1]}

\* Where a list of call expressions can be split into two files
Cuts(sz, k) == {c \in 0..k : \A i \in 1..c : i + sz[i] - 1 <= c}

twoFiles(nodes, sz, c) ==
  LET sized == [i \in 1..Len(nodes) |-> [nodes[i] EXCEPT !.size = sz[i]]]
  IN <<SubSeq(sized, 1, c), SubSeq(sized, c + 1, Len(nodes))>>

Declarations == [Symbols -> {DeclOne, DeclTwo}]
PlainDeclarations == [s \in Symbols |-> DeclOne]
DeclV == [tags |-> <<[name |-> TagRoute, text |-> <<"/", "v">>]>>, text |-> <<"R", NL, "D">>]
VersionDeclarations == [s \in Symbols |-> DeclV]
TitledConfig ==
  [DefaultConfig EXCEPT !.host = Str(<<"h">>), !.title = Str(<<"T">>)]

-----------------------------------------------------------------------------
(* emitter.ts: the stream of a DocumentationEmitter *)

\* new DocumentationEmitter(config): createWriteStream, then emitMetadata.
\* then is the callback afterProgramCreate attaches to close(): "none",
\* "pending" or "done".
\* mode is how the stream writes its queue, unknown until its first write.
newEmitter(config_) ==
  [st |-> "created", ended |-> FALSE, queue |-> emitMetadata(config_), then |-> "none",
   mode |-> "unknown"]

\* The WriteStream of node up to 14 writes the first chunk with fs.write and
\* what is queued behind it with one fs.writev; later versions write the
\* whole queue with one fs.writev. A run has one of the two.
WriteModes == {"write, writev", "writev"}

Event(p, ev) == [pass |-> p, ev |-> ev]

-----------------------------------------------------------------------------
(* parser.ts createDocumentation: one pass over the files *)

addRouteInFront(map, sym, route) ==
  IF \E e \in 1..Len(map) : map[e].sym = sym
  THEN [e \in 1..Len(map) |->
          IF map[e].sym = sym THEN [map[e] EXCEPT !.routes = Append(@, route)] ELSE map[e]]
  ELSE <<[sym |-> sym, routes |-> <<route>>]>> \o map

\* routersToRoutes.get(sym) / push / set on the insertion-ordered Map
addRoute(map, sym, route) ==
  IF \E e \in 1..Len(map) : map[e].sym = sym
  THEN [e \in 1..Len(map) |->
          IF map[e].sym = sym THEN [map[e] EXCEPT !.routes = Append(@, route)] ELSE map[e]]
  ELSE Append(map, [sym |-> sym, routes |-> <<route>>])

Traversing == pc = "scan" /\ fileIdx <= Len(files) /\ nodeIdx <= Len(files[fileIdx])
Emitting == pc = "scan" /\ fileIdx <= Len(files) /\ nodeIdx > Len(files[fileIdx])
Scanned == pc = "scan" /\ fileIdx > Len(files)

Throw(error, at) ==
  /\ pc' = "thrown"
  /\ fatal' = [k |-> "Error", msg |-> error.msg, at |-> at]

\* What lookForRoutes does with the result of handleKoaRouter. A skipped
\* route returns before node.forEachChild, a documented one descends.
addOrSkip(node, at, route) ==
  IF route.k = "Error"
  THEN Throw(route, at) /\ UNCHANGED <<nodeIdx, routersToRoutes, diagnostics>>
  ELSE IF route.k = "ok"
  THEN /\ routersToRoutes' = addRoute(routersToRoutes, node.sym, route.v)
       /\ nodeIdx' = nodeIdx + 1
       /\ UNCHANGED <<pc, fatal, diagnostics>>
  ELSE /\ diagnostics' = Append(diagnostics, [pass |-> pass, at |-> at, msg |-> route.msg])
       /\ nodeIdx' = nodeIdx + node.size
       /\ UNCHANGED <<pc, fatal, routersToRoutes>>

visit(node, at, qualifies) ==
  IF qualifies = "throw"
  THEN /\ Throw([msg |-> "Cannot read property 'kind' of undefined"], at)
       /\ UNCHANGED <<nodeIdx, routersToRoutes, diagnostics>>
  ELSE IF qualifies = "true"
  THEN addOrSkip(node, at, handleKoaRouter(node, at, config))
  ELSE /\ nodeIdx' = nodeIdx + 1
       /\ diagnostics' =
            IF qualifies = "warn"
            THEN Append(diagnostics,
                        [pass |-> pass, at |-> at,
                         msg |-> "Skipping router using something other than a string literal"])
            ELSE diagnostics
       /\ UNCHANGED <<pc, fatal, routersToRoutes>>

\* lookForRoutes on the next call expression of the file
LookForRoutes ==
  /\ Traversing
  /\ visit(files[fileIdx][nodeIdx], <<fileIdx, nodeIdx>>,
           isRouterFunction(files[fileIdx][nodeIdx]))
  /\ UNCHANGED <<config, watch, files, decl, pass, fileIdx, emitIdx, emitted, streams, log,
                 call, ret>>

emitOrThrow(routerDoc) ==
  IF routerDoc.k = "Error"
  THEN Throw(routerDoc, <<fileIdx, emitIdx>>) /\ UNCHANGED <<emitIdx, emitted, streams>>
  ELSE /\ emitted' = Append(emitted, [pass |-> pass, file |-> fileIdx, router |-> routerDoc.v])
       /\ streams' = [streams EXCEPT ![pass].queue = @ \o emit(routerDoc.v)]
       /\ emitIdx' = emitIdx + 1
       /\ UNCHANGED <<pc, fatal>>

\* One turn of the loop over routersToRoutes.entries() in documentSourceFile
EmitRouter ==
  /\ Emitting
  /\ emitIdx <= Len(routersToRoutes)
  /\ emitOrThrow(parseRouterDoc(decl[routersToRoutes[emitIdx].sym],
                                groupByRoute(routersToRoutes[emitIdx].routes)))
  /\ UNCHANGED <<config, watch, files, decl, pass, fileIdx, nodeIdx, routersToRoutes,
                 diagnostics, log, call, ret>>

\* documentSourceFile returns; nonLibFiles.forEach goes on to the next file
NextFile ==
  /\ Emitting
  /\ emitIdx > Len(routersToRoutes)
  /\ fileIdx' = fileIdx + 1
  /\ nodeIdx' = 1
  /\ emitIdx' = 1
  /\ routersToRoutes' = <<>>
  /\ UNCHANGED <<config, watch, files, decl, pc, pass, emitted, diagnostics, fatal, streams,
                 log, call, ret>>

\* The families of programs a pass is run on: the calls a file is made of,
\* whether calls nest, and the declarations of the two variables
Families ==
  {[kinds |-> AliasNodes, nested |-> FALSE, decls |-> Declarations,
    configs |-> {DefaultConfig}],
   [kinds |-> BindingNodes, nested |-> FALSE, decls |-> Declarations,
    configs |-> {DefaultConfig}],
   [kinds |-> SkipNodes, nested |-> TRUE, decls |-> {PlainDeclarations},
    configs |-> {DefaultConfig}],
   [kinds |-> OtherNodes, nested |-> TRUE, decls |-> {PlainDeclarations},
    configs |-> {DefaultConfig}],
   [kinds |-> EmitNodes, nested |-> FALSE, decls |-> {PlainDeclarations},
    configs |-> {DefaultConfig}],
   [kinds |-> EmitNodes, nested |-> FALSE, decls |-> {VersionDeclarations},
    configs |-> {TitledConfig}]}

\* The state when afterProgramCreate calls createDocumentation
Init ==
  /\ \E family \in Families, k \in 1..MaxNodes :
       \E sz \in IF family.nested THEN Shapes(k) ELSE Flat(k) :
         \E c \in Cuts(sz, k), nodes \in [1..k -> family.kinds] :
           files = twoFiles(nodes, sz, c) /\ decl \in family.decls /\ config \in family.configs
  /\ watch = FALSE
  /\ pc = "scan"
  /\ pass = 1
  /\ fileIdx = 1
  /\ nodeIdx = 1
  /\ emitIdx = 1
  /\ routersToRoutes = <<>>
  /\ emitted = <<>>
  /\ diagnostics = <<>>
  /\ fatal = Null
  /\ streams = <<newEmitter(config)>>
  /\ log = <<Event(1, "create")>>
  /\ call = NoCall
  /\ ret = Pending

Next ==
  \/ LookForRoutes
  \/ EmitRouter
  \/ NextFile

Spec == Init /\ [][Next]_vars

-----------------------------------------------------------------------------
(* index.ts: passes in one-shot and in watch mode *)

\* close() awaits the 'close' event of the stream
closeAwaitedAtEnd(s) == s.ended
closeAwaited(s) == s.st = "closed"

\* The callback given to emitter.close().then is ready to run. It is a
\* microtask: it runs before any other callback of the event loop.
callbackDue(s) == s.then = "pending" /\ closeAwaited(s)
Busy == \E p \in 1..Len(streams) : callbackDue(streams[p])

\* The config file as readFileSync and JSON.parse find it
MissingFile == [k |-> "missing"]
InvalidJson == [k |-> "invalid"]
Json(raw) == [k |-> "json", raw |-> raw]

parseConfigValidated(validated) ==
  IF validated.k = "Error" THEN NiceError("Error: Config file is invalid") ELSE validated

parseConfig(file) ==
  IF file.k = "missing" THEN NiceError("Error: Config file was not found")
  ELSE IF file.k = "invalid" THEN NiceError("Error: Could not parse config file as JSON")
  ELSE parseConfigValidated(validateConfig(file.raw))

\* The docconfig.json files of a run: without afterHook, with the empty
\* afterHook, with an afterHook and a title, and the files parseConfig rejects
NoDefaults == [number |-> Undefined, string |-> Undefined, boolean |-> Undefined,
               jsonKey |-> Undefined]
NoExamples == [response |-> EmptyTable, param |-> EmptyTable, all |-> EmptyTable]
rawConfig(output, title, afterHook) ==
  [output |-> output, host |-> Undefined, title |-> title, description |-> Undefined,
   afterHook |-> afterHook, defaults |-> NoDefaults, examples |-> NoExamples]
ValidFiles ==
  {Json(rawConfig(Str(<<"o">>), Undefined, h)) : h \in {Undefined, Str(<<>>)}}
    \cup {Json(rawConfig(Str(<<"o">>), Str(<<"T">>), Str(<<"h">>)))}
ConfigFiles ==
  ValidFiles \cup {MissingFile, InvalidJson, Json(rawConfig(Undefined, Undefined, Undefined))}

\* The first call of afterProgramCreate is made by ts.createWatchProgram
\* inside watchMain, under the try of the main module, whose catch prints a
\* NiceError and lets the process go on. Later calls come from the event loop
\* and nothing catches what they throw.
firstCall == pass = 0 /\ fatal = Null

\* afterProgramCreate after parseConfig: a NiceError leaves it before the
\* emitter exists, otherwise the shared variable config is assigned and the
\* emitter of the pass is constructed
startPass(parsed) ==
  IF parsed.k # "ok"
  THEN /\ pc' = IF firstCall THEN "idle" ELSE "thrown"
       /\ fatal' = [k |-> "NiceError", msg |-> parsed.msg, at |-> <<0, 0>>]
       /\ UNCHANGED <<config, pass, streams, log, fileIdx, nodeIdx, emitIdx, routersToRoutes>>
  ELSE /\ config' = parsed.v
       /\ pass' = pass + 1
       /\ streams' = Append(streams, newEmitter(parsed.v))
       /\ log' = Append(log, Event(pass + 1, "create"))
       /\ pc' = "scan"
       /\ fileIdx' = 1
       /\ nodeIdx' = 1
       /\ emitIdx' = 1
       /\ routersToRoutes' = <<>>
       /\ UNCHANGED fatal

\* host.afterProgramCreate up to the call of createDocumentation. The event
\* loop calls it for the first program and after every change of a file; it
\* reads the config file as it is then.
AfterProgramCreate ==
  /\ pc = "idle"
  /\ ~Busy
  /\ pass < MaxPasses
  /\ \E file \in ConfigFiles : startPass(parseConfig(file))
  /\ UNCHANGED <<watch, files, decl, emitted, diagnostics, call, ret>>

\* createDocumentation has returned: emitter.close() calls fileStream.end(),
\* the callback is attached and afterProgramCreate returns
EmitterClose ==
  /\ Scanned
  /\ streams' = [streams EXCEPT ![pass].ended = TRUE, ![pass].then = "pending"]
  /\ log' = Append(log, Event(pass, "end"))
  /\ pc' = "idle"
  /\ UNCHANGED <<config, watch, files, decl, pass, fileIdx, nodeIdx, emitIdx, routersToRoutes,
                 emitted, diagnostics, fatal, call, ret>>

StreamStep(p, stream, ev) ==
  /\ pc = "idle"
  /\ ~Busy
  /\ streams' = [streams EXCEPT ![p] = stream]
  /\ log' = Append(log, Event(p, ev))
  /\ UNCHANGED <<config, watch, files, decl, pc, pass, fileIdx, nodeIdx, emitIdx,
                 routersToRoutes, emitted, diagnostics, fatal, call, ret>>

\* The write stream opens its file, which truncates it
StreamOpen(p) ==
  /\ streams[p].st = "created"
  /\ StreamStep(p, [streams[p] EXCEPT !.st = "open"], "opened")

\* The write modes the run can still have: the one a stream has shown
knownModes == {streams[q].mode : q \in 1..Len(streams)} \ {"unknown"}
modesLeft == IF knownModes = {} THEN WriteModes ELSE knownModes

\* The write stream writes what is queued: all of it, or the first chunk
\* alone when it is the first write of a stream of node up to 14
StreamWrite(p) ==
  /\ streams[p].st = "open"
  /\ streams[p].queue # <<>>
  /\ \E mode \in modesLeft :
       StreamStep(p, [streams[p] EXCEPT
                        !.mode = mode,
                        !.queue = IF mode = "write, writev" /\ streams[p].mode = "unknown"
                                  THEN Tail(@) ELSE <<>>],
                  "written")

\* The ended stream has written everything: it closes and emits 'close'
StreamClose(p) ==
  /\ streams[p].st = "open"
  /\ streams[p].queue = <<>>
  /\ streams[p].ended
  /\ StreamStep(p, [streams[p] EXCEPT !.st = "closed"], "closed")

\* execSync(config.afterHook) returns or throws; process.exit(0) follows a
\* hook that returned, or no hook, when not watching
afterClose(p, hookReturns) ==
  /\ log' = log
       \o (IF truthy(config.afterHook)
           THEN <<Event(p, IF hookReturns THEN "hook" ELSE "hookFailed")>> ELSE <<>>)
       \o (IF hookReturns /\ ~watch THEN <<Event(p, "exit")>> ELSE <<>>)
  /\ pc' = IF hookReturns /\ ~watch THEN "exited" ELSE "idle"

\* The callback of emitter.close().then, with the catch after it
ThenCallback(p) ==
  /\ pc = "idle"
  /\ callbackDue(streams[p])
  /\ streams' = [streams EXCEPT ![p].then = "done"]
  /\ \E hookReturns \in IF truthy(config.afterHook) THEN BOOLEAN ELSE {TRUE} :
       afterClose(p, hookReturns)
  /\ UNCHANGED <<config, watch, files, decl, pass, fileIdx, nodeIdx, emitIdx, routersToRoutes,
                 emitted, diagnostics, fatal, call, ret>>

WatchFiles ==
  {<< <<n>> >> :
     n \in {mkNode("router", 1, "get", "StringLiteral", PathA, c, 1) :
              c \in {DocOk, NoComment, DocTwoBodies}}}

InitWatch ==
  /\ files \in WatchFiles
  /\ decl = PlainDeclarations
  /\ config \in {parseConfig(file).v : file \in ValidFiles}
  /\ watch \in BOOLEAN
  /\ pc = "idle"
  /\ pass = 0
  /\ fileIdx = 1
  /\ nodeIdx = 1
  /\ emitIdx = 1
  /\ routersToRoutes = <<>>
  /\ emitted = <<>>
  /\ diagnostics = <<>>
  /\ fatal = Null
  /\ streams = <<>>
  /\ log = <<>>
  /\ call = NoCall
  /\ ret = Pending

NextWatch ==
  \/ AfterProgramCreate
  \/ LookForRoutes
  \/ EmitRouter
  \/ NextFile
  \/ EmitterClose
  \/ \E p \in 1..Len(streams) : StreamOpen(p)
  \/ \E p \in 1..Len(streams) : StreamWrite(p)
  \/ \E p \in 1..Len(streams) : StreamClose(p)
  \/ \E p \in 1..Len(streams) : ThenCallback(p)

SpecWatch == InitWatch /\ [][NextWatch]_vars

-----------------------------------------------------------------------------
(* Claims about the functions, checked under SpecFn *)

Returned(fn) == call.fn = fn /\ ret # Pending

firstIndexOfPath(docs, path) ==
  CHOOSE i \in 1..Len(docs) :
    docs[i].path = path /\ \A j \in 1..(i - 1) : docs[j].path # path

\* C1: groupByRoute returns the Groups in the order in which their paths first
\* occur among the Blocks, every Group holds exactly the Blocks of its path in
\* the order of discovery, and a Block with a path seen before joins the
\* Group of that path: it neither creates a second Group nor moves one.
C1_GroupsKeepDiscoveryOrder ==
  Returned("groupByRoute") =>
    /\ \A g \in 1..Len(ret.v) :
         ret.v[g].methods = SelectSeq(call.docs, LAMBDA d : d.path = ret.v[g].path)
    /\ \A g, h \in 1..Len(ret.v) :
         g < h => firstIndexOfPath(call.docs, ret.v[g].path)
                    < firstIndexOfPath(call.docs, ret.v[h].path)
    /\ Len(ret.v) = Cardinality({call.docs[i].path : i \in 1..Len(call.docs)})

\* A path that comes back after a Block of another path
C1_Witness ==
  /\ Returned("groupByRoute")
  /\ \E i, j, k \in 1..Len(call.docs) :
       /\ i < j /\ j < k
       /\ call.docs[i].path = call.docs[k].path
       /\ call.docs[i].path # call.docs[j].path

typeDefault(c, type) ==
  CASE type = "number" -> c.defaults.number
    [] type = "string" -> c.defaults.string
    [] type = "boolean" -> c.defaults.boolean

propertyName == call.schema.properties[1].name
propertyType == call.schema.properties[1].schema.type.names[1]
propertyExample == objGet(ret.v.entries, propertyName)

\* C3 as stated: the example of a primitive property named n is the
\* response-table entry for n, else the param-table entry for n, else the
\* configured default of its type.
C3_ParamTableIsSecondChoice ==
  Returned("createSchemaExample") =>
    propertyExample =
      IF propertyName \in DOMAIN call.config.examples.response
      THEN call.config.examples.response[propertyName]
      ELSE IF propertyName \in DOMAIN call.config.examples.param
      THEN call.config.examples.param[propertyName]
      ELSE typeDefault(call.config, propertyType)

\* C3 as amended: the example of a primitive property named n is the
\* response-table entry for n when n is not empty and has one, and the
\* configured default of its type otherwise; the param table is not read.
C3_ResponseTableThenDefault ==
  Returned("createSchemaExample") =>
    propertyExample =
      IF propertyName # <<>> /\ propertyName \in DOMAIN call.config.examples.response
      THEN call.config.examples.response[propertyName]
      ELSE typeDefault(call.config, propertyType)

\* A property that only the param table names
C3_Witness ==
  /\ Returned("createSchemaExample")
  /\ propertyName # <<>>
  /\ propertyName \notin DOMAIN call.config.examples.response
  /\ propertyName \in DOMAIN call.config.examples.param
  /\ propertyExample = typeDefault(call.config, propertyType)

\* C4: the example of a @param or @query parameter named n is the param-table
\* entry for n if there is one and the configured string default otherwise,
\* and it is the same under every other response table.
C4_ParamExampleIgnoresResponseTable ==
  Returned("parseParam") =>
    /\ ret.v.example =
         IF call.tag.name \in DOMAIN call.config.examples.param
         THEN call.config.examples.param[call.tag.name]
         ELSE call.config.defaults.string
    /\ \A r \in ResponseTables :
         parseParam(call.tag, call.query,
                    [call.config EXCEPT !.examples.response = r]).example = ret.v.example

\* A parameter that only the response table names
C4_Witness ==
  /\ Returned("parseParam")
  /\ call.tag.name \in DOMAIN call.config.examples.response
  /\ call.tag.name \notin DOMAIN call.config.examples.param
  /\ ret.v.example = call.config.defaults.string

\* The type a @response or @body tag asks the generator to resolve, empty if none
requestedType(tag) ==
  IF tag.tag = TagBody /\ Len(tag.name) >= 2 /\ ~includes(tag.name, "/")
  THEN SubSeq(tag.name, 2, Len(tag.name) - 1)
  ELSE IF includes(tag.type, "/") THEN <<>> ELSE tag.type

unusableType(tag) ==
  /\ tag.tag \in {TagResponse, TagBody}
  /\ requestedType(tag) # <<>>
  /\ \/ requestedType(tag) \notin DOMAIN ProgramTypes
     \/ createSchemaExample(ProgramTypes[requestedType(tag)], DefaultConfig, <<>>) = Thrown

hasUnusableType == \E i \in 1..Len(call.node.comment.tags) : unusableType(call.node.comment.tags[i])

\* C9 as stated: a @response or @body tag whose type cannot be resolved or has
\* an unsupported kind is dropped alone, and the Block of the route is still
\* produced with its params and its other response tags.
C9_OnlyTheTagIsDropped ==
  (Returned("handleKoaRouter") /\ hasUnusableType) =>
    /\ ret.k = "ok"
    /\ Len(ret.v.params) =
         Len(SelectSeq(call.node.comment.tags, LAMBDA t : t.tag \in {TagParam, TagQuery}))
    /\ Len(ret.v.responses) =
         Len(SelectSeq(call.node.comment.tags,
                       LAMBDA t : t.tag = TagResponse /\ ~unusableType(t)))

\* C9 as amended: such a tag drops the whole route: handleKoaRouter ends with
\* an error and returns no Block.
C9_TheRouteIsDropped ==
  (Returned("handleKoaRouter") /\ hasUnusableType) => ret.k \in {"NiceError", "Error"}

\* A route with a param tag and a response tag of an unresolvable type
C9_Witness ==
  /\ Returned("handleKoaRouter")
  /\ hasUnusableType
  /\ ret.k = "NiceError"
  /\ \E i \in 1..Len(call.node.comment.tags) : call.node.comment.tags[i].tag = TagParam
  /\ ret.k = "NiceError"

tagsOf(kinds) == SelectSeq(call.node.comment.tags, LAMBDA t : t.tag \in kinds)

\* C12: the params of a Block are the @param tags in their order followed
\* by the @query tags in their order, each tag once, however the tags are
\* interleaved in the comment.
C12_UrlParamsThenQueryParams ==
  (Returned("handleKoaRouter") /\ ret.k = "ok") =>
    /\ Len(ret.v.params) = Len(tagsOf({TagParam})) + Len(tagsOf({TagQuery}))
    /\ \A i \in 1..Len(tagsOf({TagParam})) :
         ret.v.params[i].name = tagsOf({TagParam})[i].name /\ ~ret.v.params[i].query
    /\ \A i \in 1..Len(tagsOf({TagQuery})) :
         /\ ret.v.params[Len(tagsOf({TagParam})) + i].name = tagsOf({TagQuery})[i].name
         /\ ret.v.params[Len(tagsOf({TagParam})) + i].query

\* A comment of four tags, @query b, @param b, @query a, @param a, has given
\* the params b, a of the url and then b, a of the query
C12_Witness ==
  /\ Returned("handleKoaRouter")
  /\ ret.k = "ok"
  /\ [i \in 1..Len(call.node.comment.tags) |->
        <<call.node.comment.tags[i].tag, call.node.comment.tags[i].name>>]
       = <<<<TagQuery, NameB>>, <<TagParam, NameB>>, <<TagQuery, NameA>>, <<TagParam, NameA>>>>
  /\ [i \in 1..Len(ret.v.params) |-> <<ret.v.params[i].query, ret.v.params[i].name>>]
       = <<<<FALSE, NameB>>, <<FALSE, NameA>>, <<TRUE, NameB>>, <<TRUE, NameA>>>>

\* The text of the lines after the first line of a tag, empty if there is none
continuationOf(tag) ==
  IF includes(tag.source, NL)
  THEN SubSeq(tag.source, indexOf(tag.source, <<NL>>) + 1, Len(tag.source))
  ELSE <<>>

\* C15: in a Block, the Response of a @response tag with no type and a
\* continuation line has the text of the continuation as its body and no
\* schema; the Response of a tag with a structural type and no continuation
\* line has the resolved schema and the example synthesized from it.
C15_ResponseBodyAndSchema ==
  (Returned("handleKoaRouter") /\ ret.k = "ok") =>
    \A i \in 1..Len(tagsOf({TagResponse})) :
      /\ (tagsOf({TagResponse})[i].type = <<>> /\ continuationOf(tagsOf({TagResponse})[i]) # <<>>)
           => /\ ret.v.responses[i].body = Str(continuationOf(tagsOf({TagResponse})[i]))
              /\ ret.v.responses[i].schema = Null
      /\ (requestedType(tagsOf({TagResponse})[i]) # <<>>
            /\ continuationOf(tagsOf({TagResponse})[i]) = <<>>)
           => /\ ret.v.responses[i].schema = getSchemaForSymbol(tagsOf({TagResponse})[i].type)
              /\ ret.v.responses[i].body =
                   createSchemaExample(ProgramTypes[tagsOf({TagResponse})[i].type],
                                       DefaultConfig, <<>>)

\* C14: converting a converted path again changes nothing.
C14_FormatPathIdempotent ==
  Returned("formatPath") => formatPath(ret.v) = ret.v

documentedType(key) == IF key = "jsonKey" THEN "string" ELSE key

\* An object schema that allows extra properties of type string
SchemaExtra == mkSchema(TypeOf("object"), <<>>, [k |-> "schema", s |-> Prim("string")], NoItems)

\* C16: validateConfig keeps every default of the documented type and puts
\* the built-in default in the place of any other, and a string jsonKey of
\* the user is the key of the extra-property entry of an object example.
C16_UserDefaultsAreKept ==
  (Returned("validateConfig") /\ ret.k = "ok") =>
    /\ \A key \in {"number", "string", "boolean"} :
         ret.v.defaults[key] =
           IF typeof(call.raw.defaults[key]) = documentedType(key)
           THEN call.raw.defaults[key] ELSE defaultDefaults[key]
    /\ ret.v.defaults.jsonKey =
         IF typeof(call.raw.defaults.jsonKey) = "string"
         THEN call.raw.defaults.jsonKey.s ELSE defaultDefaults.jsonKey
    /\ typeof(call.raw.defaults.jsonKey) = "string" =>
         objHas(createSchemaExample(SchemaExtra, ret.v, <<>>).entries,
                call.raw.defaults.jsonKey.s)

\* The places of a Block in the Groups: a Group and an index in its methods
placesOf(groups, doc) ==
  {<<g, m>> \in UNION {{<<h, n>> : n \in 1..Len(groups[h].methods)} : h \in 1..Len(groups)} :
     groups[g].methods[m] = doc}

\* C22: groupByRoute partitions its input. Every Block of the input is in
\* one place of one Group, that Group has the path of the Block, the Groups
\* hold nothing but Blocks of the input, no Group is empty and no two Groups
\* have the same path.
C22_GroupsPartitionTheBlocks ==
  Returned("groupByRoute") =>
    /\ \A i \in 1..Len(call.docs) :
         /\ Cardinality(placesOf(ret.v, call.docs[i])) = 1
         /\ \A place \in placesOf(ret.v, call.docs[i]) :
              ret.v[place[1]].path = call.docs[i].path
    /\ \A g \in 1..Len(ret.v) :
         /\ Len(ret.v[g].methods) > 0
         /\ \A m \in 1..Len(ret.v[g].methods) :
              \E i \in 1..Len(call.docs) : call.docs[i] = ret.v[g].methods[m]
    /\ \A g, h \in 1..Len(ret.v) : g # h => ret.v[g].path # ret.v[h].path

\* Four Blocks on two paths have come back as two Groups of two Blocks
C22_Witness ==
  /\ Returned("groupByRoute")
  /\ Len(call.docs) = 4
  /\ Len(ret.v) = 2
  /\ Len(ret.v[1].methods) = 2
  /\ Len(ret.v[2].methods) = 2

\* The keys of an object value, and the names an object schema declares
keysOf(entries) == {entries[i].key : i \in 1..Len(entries)}
declaredNames(schema) == {schema.properties[i].name : i \in 1..Len(schema.properties)}
declaresExtra(schema) == schema.additionalProperties.k = "schema"
noOverrides(c) == DOMAIN c.examples.response = {}

\* The example the claim asks for a property schema: the configured default
\* of a primitive type, the recursive example otherwise
expectedExample(schema, c) ==
  IF schema.type.names[1] \in {"number", "string", "boolean"}
  THEN typeDefault(c, schema.type.names[1])
  ELSE createSchemaExample(schema, c, <<>>)

\* C21: without overrides the example of an object schema has the declared
\* property names as keys, each with the example of its property schema, and
\* one more entry under the configured jsonKey exactly when the schema has a
\* schema for extra properties.
C21_DeclaredPropertiesPlusExtra ==
  (Returned("createObjectExample") /\ noOverrides(call.config)) =>
    /\ ret.v.k = "object"
    /\ declaredNames(call.schema) \subseteq keysOf(ret.v.entries)
    /\ \A i \in 1..Len(call.schema.properties) :
         objHas(ret.v.entries, call.schema.properties[i].name)
           => objGet(ret.v.entries, call.schema.properties[i].name)
                = expectedExample(call.schema.properties[i].schema, call.config)
    /\ Len(ret.v.entries)
         = Len(call.schema.properties) + (IF declaresExtra(call.schema) THEN 1 ELSE 0)
    /\ declaresExtra(call.schema) =>
         /\ objHas(ret.v.entries, call.config.defaults.jsonKey)
         /\ objGet(ret.v.entries, call.config.defaults.jsonKey)
              = expectedExample(call.schema.additionalProperties.s, call.config)
    /\ ~declaresExtra(call.schema) => keysOf(ret.v.entries) = declaredNames(call.schema)

-----------------------------------------------------------------------------
(* Claims about a pass, checked under Spec *)

nodeAt(at) == files[at[1]][at[2]]

\* The positions of the Blocks of the e-th emitted Router
RouterBlocks(e) ==
  UNION {{emitted[e].router.routes[g].methods[m].at :
            m \in 1..Len(emitted[e].router.routes[g].methods)} :
           g \in 1..Len(emitted[e].router.routes)}

EmittedBlocks == UNION {RouterBlocks(e) : e \in 1..Len(emitted)}

\* The call at a position is a route registration with a usable comment
documentedRoute(at) ==
  /\ isRouterFunction(nodeAt(at)) = "true"
  /\ handleKoaRouter(nodeAt(at), at, config).k = "ok"

tooManyTags(sym) == Len(SelectSeq(decl[sym].tags, LAMBDA t : t.name # <<>>)) > 1

\* The positions of the call expressions of the program
Calls == UNION {{<<f, i>> : i \in 1..Len(files[f])} : f \in 1..Len(files)}

\* C2: the routes of a file land in the same emitted Router exactly when
\* they were registered on the same routing object, whatever variables the
\* registrations went through.
C2_MergedByRoutingObject ==
  \A e1, e2 \in 1..Len(emitted) :
    \A a \in RouterBlocks(e1), b \in RouterBlocks(e2) :
      a[1] = b[1] => ((e1 = e2) <=> (nodeAt(a).obj = nodeAt(b).obj))

\* The comment of the call has a @response tag whose code is not a number
badResponseCode(at) ==
  /\ isRouterFunction(nodeAt(at)) = "true"
  /\ nodeAt(at).comment.present
  /\ \E t \in 1..Len(nodeAt(at).comment.tags) :
       /\ nodeAt(at).comment.tags[t].tag = TagResponse
       /\ parseInt(nodeAt(at).comment.tags[t].name).nan

Diagnosed(at) == \E d \in 1..Len(diagnostics) : diagnostics[d].at = at

\* C8: when the pass has gone through the files, a route with a non-numeric
\* @response code has no Block and has a diagnostic, and every other
\* documented route of its file has its Block in an emitted Router.
C8_OnlyThatRouteIsSkipped ==
  Scanned =>
    \A at \in Calls :
      badResponseCode(at) =>
        /\ at \notin EmittedBlocks
        /\ Diagnosed(at)
        /\ \A other \in Calls :
             (other[1] = at[1] /\ other # at /\ documentedRoute(other))
               => other \in EmittedBlocks

\* The pass stands at a binding whose declaration has several route tags
AtTooManyTags ==
  /\ Emitting
  /\ emitIdx <= Len(routersToRoutes)
  /\ tooManyTags(routersToRoutes[emitIdx].sym)

TooManyTagsThrown == pc = "thrown" /\ fatal.msg = "Too many @route tags"

EmittedFor(f, sym) ==
  \E e \in 1..Len(emitted) :
    \E at \in RouterBlocks(e) : at[1] = f /\ nodeAt(at).sym = sym

\* C10 as stated: after the error of one binding, every other binding with
\* documented routes, in the same file and in later files, has its Router.
C10_OnlyThatBindingIsAborted ==
  TooManyTagsThrown =>
    \A at \in Calls :
      (documentedRoute(at) /\ ~tooManyTags(nodeAt(at).sym))
        => EmittedFor(at[1], nodeAt(at).sym)

\* C10: a binding whose declaration has more than one route tag ends the
\* pass. The step that reaches it throws and emits nothing, no Router of
\* such a binding is ever emitted, and what has been emitted comes from
\* earlier files and from earlier bindings of the file.
C10_TooManyTagsEndThePass ==
  /\ [][AtTooManyTags => (TooManyTagsThrown' /\ emitted' = emitted)]_vars
  /\ [](\A e \in 1..Len(emitted) :
          \A at \in RouterBlocks(e) : ~tooManyTags(nodeAt(at).sym))
  /\ [](TooManyTagsThrown =>
          /\ tooManyTags(routersToRoutes[fatal.at[2]].sym)
          /\ Len(SelectSeq(emitted, LAMBDA e : e.file = fatal.at[1])) = fatal.at[2] - 1
          /\ \A e \in 1..Len(emitted) : emitted[e].file <= fatal.at[1])

\* The pass has ended at the second binding of the first file, with the
\* Router of the first binding emitted and documented routes in the file after
C10_Witness ==
  /\ TooManyTagsThrown
  /\ fatal.at = <<1, 2>>
  /\ Len(emitted) = 1
  /\ \E at \in Calls :
       at[1] = 2 /\ documentedRoute(at) /\ ~tooManyTags(nodeAt(at).sym)

\* The call is a documented route registration with several @body tags
twoBodyTags(at) ==
  /\ isRouterFunction(nodeAt(at)) = "true"
  /\ nodeAt(at).comment.present
  /\ Len(filterTags(nodeAt(at).comment.tags, TagBody)) > 1

TooManyBodiesThrown == pc = "thrown" /\ fatal.msg = "Too many @body tags"

\* C11: a route with more than one @body tag ends the pass: it never gets a
\* route-local diagnostic or a Block, no pass goes through all the files of
\* a program that has such a route, and when the pass has ended on it no
\* Router of that file or of a later file has been emitted.
C11_TwoBodiesAbortThePass ==
  /\ \A at \in Calls : twoBodyTags(at) => (~Diagnosed(at) /\ at \notin EmittedBlocks)
  /\ Scanned => \A at \in Calls : ~twoBodyTags(at)
  /\ TooManyBodiesThrown => \A e \in 1..Len(emitted) : emitted[e].file < fatal.at[1]

\* The call is receiver.verb(...) on a routing object, with a first argument
\* that is no string literal or with no argument
nonLiteralPath(at) ==
  /\ nodeAt(at).hasSymbol
  /\ nodeAt(at).recvType = ROUTER_TYPE
  /\ nodeAt(at).method \in ROUTER_METHODS
  /\ nodeAt(at).arg0 # "StringLiteral"

\* The pass has ended with an error thrown while lookForRoutes was at a call
ThrownAtCall == pc = "thrown" /\ nodeIdx <= Len(files[fileIdx])

\* C17: a call on a routing object whose first argument is no string
\* literal never ends the pass and never gets a Block, and when the pass has
\* gone through the files such a call at the start of a file has a warning.
C17_NonLiteralPathIsSkipped ==
  /\ ThrownAtCall => ~nonLiteralPath(<<fileIdx, nodeIdx>>)
  /\ \A at \in Calls : nonLiteralPath(at) => at \notin EmittedBlocks
  /\ Scanned =>
       \A at \in Calls : (nonLiteralPath(at) /\ at[2] = 1) => Diagnosed(at)

\* C18: when the pass has gone through the files, every call expression has
\* been visited: every route registration has its Block or its diagnostic,
\* and every registration with a non-literal path has its warning, also
\* when the call is nested in the arguments of another registration.
C18_EveryCallIsVisited ==
  Scanned =>
    \A at \in Calls :
      /\ isRouterFunction(nodeAt(at)) = "true" => (at \in EmittedBlocks \/ Diagnosed(at))
      /\ isRouterFunction(nodeAt(at)) = "warn" => Diagnosed(at)

\* The Blocks of a Router in the order of its Groups, each with the path
\* of the Router
blocksOfRouter(router) ==
  Flatten([g \in 1..Len(router.routes) |->
             [m \in 1..Len(router.routes[g].methods) |->
                [block |-> router.routes[g].methods[m], leading |-> router.path]]])

\* The Blocks the pass has emitted, in the order of emission
WrittenBlocks == Flatten([e \in 1..Len(emitted) |-> blocksOfRouter(emitted[e].router)])

\* The Groups the pass has emitted, in the order of emission
WrittenGroups == Flatten([e \in 1..Len(emitted) |-> emitted[e].router.routes])

Written == streams[pass].queue
PathHeadings == SelectSeq(Written, LAMBDA x : x.w = "## <Unnamed group>")
Headings == SelectSeq(Written, LAMBDA x : x.w \in {"## <Unnamed group>", "### "})

namesOf(params) == [i \in 1..Len(params) |-> params[i].name]
queryNames(block) == namesOf(SelectSeq(block.params, LAMBDA p : p.query))
groupQueryNames(group) ==
  Flatten([m \in 1..Len(group.methods) |-> queryNames(group.methods[m])])

querySuffix(names) ==
  IF names = <<>> THEN <<>> ELSE <<"{", "?">> \o joinComma(names) \o <<"}">>

\* C13 as stated: one path heading per Group, whose suffix lists the query
\* parameters of all the Blocks of the Group.
C13_OnePathHeadingPerGroup ==
  /\ Len(PathHeadings) = Len(WrittenGroups)
  /\ \A g \in 1..Len(WrittenGroups) :
       g <= Len(PathHeadings) =>
         \E tail \in {querySuffix(groupQueryNames(WrittenGroups[g]))} :
           /\ Len(PathHeadings[g].url) >= Len(tail)
           /\ SubSeq(PathHeadings[g].url, Len(PathHeadings[g].url) - Len(tail) + 1,
                     Len(PathHeadings[g].url)) = tail

\* C13: the emitter writes one path heading and then one method heading for
\* every Block, in the order of the Groups and of the Blocks in them. The path
\* heading of a Block has the Router path joined with the converted
\* registration path, and a {?...} suffix exactly when that Block has a query
\* parameter, listing the query parameters of that Block in their order.
C13_OnePathHeadingPerBlock ==
  /\ Len(Headings) = 2 * Len(WrittenBlocks)
  /\ \A i \in 1..Len(WrittenBlocks) :
       2 * i <= Len(Headings) =>
         /\ Headings[2 * i - 1].w = "## <Unnamed group>"
         /\ Headings[2 * i - 1].url =
              pathJoin(WrittenBlocks[i].leading, formatPath(WrittenBlocks[i].block.path))
                \o querySuffix(queryNames(WrittenBlocks[i].block))
         /\ Headings[2 * i].w = "### "
         /\ Headings[2 * i].title = WrittenBlocks[i].block.title
         /\ Headings[2 * i].method = toUpperCase(WrittenBlocks[i].block.method)

\* A Group of two Blocks has been written, one with a query parameter and
\* one without
C13_Witness ==
  /\ Scanned
  /\ \E g \in 1..Len(WrittenGroups) :
       /\ Len(WrittenGroups[g].methods) = 2
       /\ queryNames(WrittenGroups[g].methods[1]) = <<>>
       /\ queryNames(WrittenGroups[g].methods[2]) # <<>>

Least(S) == CHOOSE x \in S : \A y \in S : x <= y

\* The binding of the e-th emitted Router, the index in its file of its first
\* Block, and the index of the first qualifying registration on its binding
symOf(e) == nodeAt(CHOOSE at \in RouterBlocks(e) : TRUE).sym
firstBlock(e) == Least({at[2] : at \in RouterBlocks(e)})
firstQualifying(e) ==
  Least({i \in 1..Len(files[emitted[e].file]) :
           /\ files[emitted[e].file][i].sym = symOf(e)
           /\ isRouterFunction(files[emitted[e].file][i]) = "true"})

HeaderFirst ==
  /\ Len(Written) > 0
  /\ \A i \in 1..Len(Written) : (Written[i].w = "FORMAT: 1A") <=> (i = 1)
  /\ Len(SelectSeq(Written, LAMBDA x : x.w = "# Group ")) = Len(emitted)

\* C19 as stated: the Routers of a file are emitted in the order of the
\* first qualifying registration of their bindings, skipped or not.
C19_InOrderOfFirstRegistration ==
  /\ HeaderFirst
  /\ \A e1, e2 \in 1..Len(emitted) :
       (e1 < e2 /\ emitted[e1].file = emitted[e2].file)
         => /\ symOf(e1) # symOf(e2)
            /\ firstQualifying(e1) < firstQualifying(e2)

\* C19: the header line is the first write of the pass and is written once,
\* before the heading of every Router. A file is left only when each binding
\* that has a Block has its Router emitted, no binding is emitted twice for a
\* file, and the Routers of a file are emitted in the order of the first
\* Block of their bindings, that is of the first registration that was
\* documented and not skipped.
C19_InOrderOfFirstBlock ==
  /\ [](HeaderFirst)
  /\ [](\A e1, e2 \in 1..Len(emitted) :
          (e1 < e2 /\ emitted[e1].file = emitted[e2].file)
            => /\ symOf(e1) # symOf(e2)
               /\ firstBlock(e1) < firstBlock(e2))
  /\ [][fileIdx' > fileIdx =>
          \A e \in 1..Len(routersToRoutes) : EmittedFor(fileIdx, routersToRoutes[e].sym)]_vars

\* Two Routers of one file have been emitted, and the first registration on
\* the binding of the second one was skipped and came before every
\* registration on the binding of the first one
C19_Witness ==
  /\ Scanned
  /\ \E e1, e2 \in 1..Len(emitted) :
       /\ e1 < e2
       /\ emitted[e1].file = emitted[e2].file
       /\ firstQualifying(e2) < firstBlock(e2)
       /\ firstQualifying(e2) < firstQualifying(e1)

SectionLabels == {"### ", "+ Parameters", "+ Request", "+ Response"}
labelsOf(writes) == [i \in 1..Len(writes) |-> writes[i].w]

\* The sections a Block calls for, and the codes of the @response tags of
\* its comment
sectionsOf(block) ==
  <<"### ">>
    \o (IF Len(block.params) > 0 THEN <<"+ Parameters">> ELSE <<>>)
    \o (IF block.body # Null THEN <<"+ Request">> ELSE <<>>)
    \o [r \in 1..Len(block.responses) |-> "+ Response"]
responseTags(block) == filterTags(nodeAt(block.at).comment.tags, TagResponse)
tagCodes(block) ==
  [t \in 1..Len(responseTags(block)) |-> parseInt(responseTags(block)[t].name).v]

\* C20: the writes of every emitted Block are its method heading, then its
\* description, then a Parameters section exactly when it has a param, then a
\* Request section exactly when it has a body, then one Response section for
\* each @response tag of its comment, in the order of the tags.
C20_SectionsInOrder ==
  /\ labelsOf(SelectSeq(Written, LAMBDA x : x.w \in SectionLabels))
       = Flatten([i \in 1..Len(WrittenBlocks) |-> sectionsOf(WrittenBlocks[i].block)])
  /\ \A i \in 1..Len(Written) :
       Written[i].w = "### " => (i < Len(Written) /\ Written[i + 1].w = "description")
  /\ [i \in 1..Len(SelectSeq(Written, LAMBDA x : x.w = "+ Response")) |->
        SelectSeq(Written, LAMBDA x : x.w = "+ Response")[i].code]
       = Flatten([i \in 1..Len(WrittenBlocks) |-> tagCodes(WrittenBlocks[i].block)])

\* A Block with a param, a body and two responses has been written after a
\* Block without params and body
C20_Witness ==
  /\ Scanned
  /\ \E i, j \in 1..Len(WrittenBlocks) :
       /\ i < j
       /\ Len(WrittenBlocks[i].block.params) = 0
       /\ WrittenBlocks[i].block.body = Null
       /\ Len(WrittenBlocks[j].block.params) > 0
       /\ WrittenBlocks[j].block.body # Null
       /\ Len(WrittenBlocks[j].block.responses) = 2

-----------------------------------------------------------------------------
(* Claims about the passes of a run, checked under SpecWatch *)

\* A pass is in flight from the creation of its stream until the callback
\* after its close has run
InFlight(p) == streams[p].then # "done"

\* C5: in watch mode at most one pass is in flight: no pass opens the
\* output while the stream of an earlier pass is not closed or its hook has
\* not finished.
C5_OnePassInFlight ==
  watch => \A p, q \in 1..Len(streams) : (InFlight(p) /\ InFlight(q)) => p = q

EventsOf(p, evs) == {i \in 1..Len(log) : log[i].pass = p /\ log[i].ev \in evs}

\* C6: the hook of a pass runs only after the 'closed' event of the pass,
\* which follows every open, write and end of the pass; the process exits
\* only when not watching, after the close, and after the hook has returned
\* when the config has one.
C6_HookAfterCloseExitAfterHook ==
  /\ \A i \in 1..Len(log) :
       log[i].ev \in {"hook", "hookFailed"} =>
         /\ \E j \in EventsOf(log[i].pass, {"closed"}) :
              /\ j < i
              /\ \A k \in EventsOf(log[i].pass, {"create", "opened", "written", "end"}) : k < j
              /\ EventsOf(log[i].pass, {"written"}) # {}
  /\ \A i \in 1..Len(log) :
       log[i].ev = "exit" =>
         /\ ~watch
         /\ \E j \in EventsOf(log[i].pass, {"closed"}) : j < i
         /\ truthy(config.afterHook) => \E j \in EventsOf(log[i].pass, {"hook"}) : j < i
  /\ pc = "exited" <=> \E i \in 1..Len(log) : log[i].ev = "exit"

\* A one-shot run with a hook has written, closed, run the hook and exited
C6_Witness ==
  /\ pc = "exited"
  /\ truthy(config.afterHook)
  /\ EventsOf(1, {"written"}) # {}
  /\ EventsOf(1, {"hook"}) # {}

\* C7: when a pass has ended with an error, the stream of every pass that
\* has opened the output has been ended.
C7_ClosedOnEveryExitPath ==
  pc = "thrown" => \A p \in 1..Len(streams) : streams[p].ended

=============================================================================
